---- MODULE Spec2Model ----
(***************************************************************************)
(* Model of src/main.py: YouTube RSS -> Gemini -> Markdown.                *)
(*                                                                         *)
(* The program is single threaded.  pc is the position of the one thread   *)
(* inside crawl / handle_entry / gemini_audio; every external call (feed   *)
(* parser, yt-dlp, the two HTTP endpoints, the notifier) answers with a    *)
(* value the environment chooses.  An exception that no frame catches      *)
(* ends the process: pc = "crashed", err names the exception.              *)
(***************************************************************************)
EXTENDS Integers, Sequences, FiniteSets, TLC

VARIABLES
    pc,         \* position of the thread
    feeds,      \* the items of feeds.yaml the outer loop has yet to take
    entries,    \* the entries of d.entries the inner loop has yet to finish
    usePync,    \* _USE_PYNC, set once at import
    osascript,  \* whether the osascript executable exists on this machine
    meta,       \* classify_video: the decoded JSON of the metadata probe (data)
    kind,       \* classify_video's result for the entry being handled
    tmp,        \* whether the TemporaryDirectory of handle_entry exists
    audioLen,   \* len(mp3_bytes)
    parts,      \* gemini_audio: the parts list of the request payload
    retry,      \* gemini_audio: the loop variable of range(5)
    upStatus,   \* status of the upload response (0: no upload response yet)
    status,     \* status of the last generation response (0: none yet)
    body,       \* JSON body of the last generation response
    md,         \* text returned by gemini_audio
    wait,       \* gemini_audio: the backoff delay computed last, in seconds
    calls,      \* observed external calls of the current handle_entry
    processed,  \* video ids whose entry was handled through to the written file
    out,        \* OUT: file name -> content
    pause,      \* seconds crawl has slept since handle_entry last returned
                \* (Never: handle_entry has not returned in this run)
    err         \* the uncaught exception that ended the process

vars == <<pc, feeds, entries, usePync, osascript, meta, kind, tmp,
          audioLen, parts, retry, upStatus, status, body, md, wait, calls,
          processed, out, pause, err>>

None == "None"

(***************************************************************************)
(* Bounds of the model.                                                    *)
(***************************************************************************)
MaxFeeds == 2
MaxEntries == 2

(***************************************************************************)
(* Program constants.                                                      *)
(***************************************************************************)
WINDOW_HOURS == 24
Threshold == 20 * 1024 * 1024
Attempts == 5
PacingSeconds == 3
time_time == 1000000
since_ts == time_time - WINDOW_HOURS * 3600

(***************************************************************************)
(* dict.get(key, default) on a decoded JSON object: a function whose       *)
(* domain is the set of keys that are present.                             *)
(***************************************************************************)
Get(d, k, default) == IF k \in DOMAIN d THEN d[k] ELSE default

(***************************************************************************)
(* is_stream and classify_video, lines 175-197.  Python's truthiness:      *)
(* an absent key gives None (falsy), 0 is falsy.                           *)
(***************************************************************************)
LiveStatuses == {"is_live", "was_live", "is_upcoming"}

is_stream(m) ==
    \/ Get(m, "is_live", FALSE)
    \/ Get(m, "was_live", FALSE)
    \/ Get(m, "live_status", None) \in LiveStatuses

ShortsTest(dur, w, h) == dur <= 60 \/ (h # 0 /\ w # 0 /\ h > w)

classify_video_streamFirst(data) ==
    IF is_stream(data) THEN "stream"
    ELSE IF ShortsTest(Get(data, "duration", 0), Get(data, "width", 0),
                       Get(data, "height", 0)) THEN "shorts"
    ELSE "video"

classify_video(data) ==
    LET dur == Get(data, "duration", 0)
        w   == Get(data, "width", 0)
        h   == Get(data, "height", 0)
    IN  IF ShortsTest(dur, w, h) THEN "shorts"
        ELSE IF is_stream(data) THEN "stream"
        ELSE "video"

(***************************************************************************)
(* Metadata records the probe can print: every key present or absent.      *)
(***************************************************************************)
Durations == {0, 30, 59, 60, 61, 600}
Pixels == {0, 1080, 1920}
StatusValues == {"not_live", "post_live"} \cup LiveStatuses

Field(k, V) == {[x \in {} |-> 0]} \cup {[x \in {k} |-> v] : v \in V}

MetaRecords ==
    {a @@ b @@ c @@ d @@ e @@ f :
        a \in Field("duration", Durations),
        b \in Field("width", Pixels),
        c \in Field("height", Pixels),
        d \in Field("is_live", BOOLEAN),
        e \in Field("was_live", BOOLEAN),
        f \in Field("live_status", StatusValues)}

ProbeMetas ==
    {[duration |-> 600, width |-> 1920, height |-> 1080, is_live |-> FALSE,
      was_live |-> FALSE, live_status |-> "not_live"],
     [duration |-> 30, width |-> 1920, height |-> 1080, is_live |-> FALSE,
      was_live |-> FALSE, live_status |-> "not_live"],
     [duration |-> 600, width |-> 1080, height |-> 1920, is_live |-> TRUE,
      was_live |-> FALSE, live_status |-> "is_live"],
     [duration |-> 600, width |-> 1920, height |-> 1080, is_live |-> FALSE,
      was_live |-> TRUE, live_status |-> "was_live"],
     [duration |-> 600, live_status |-> "is_upcoming"]}

(***************************************************************************)
(* Sequences of length at most n over S.                                   *)
(***************************************************************************)
SeqsUpTo(S, n) == UNION {[1..k -> S] : k \in 0..n}

(***************************************************************************)
(* Strings the program edits are sequences of one-character strings.       *)
(* str.strip() removes leading and trailing white space.                   *)
(***************************************************************************)
RECURSIVE lstrip(_)
lstrip(s) == IF s # <<>> /\ Head(s) = " " THEN lstrip(Tail(s)) ELSE s

RECURSIVE rstrip(_)
rstrip(s) ==
    IF s # <<>> /\ s[Len(s)] = " " THEN rstrip(SubSeq(s, 1, Len(s) - 1)) ELSE s

strip(s) == rstrip(lstrip(s))

(***************************************************************************)
(* feeds.yaml, lines 231-234: a list whose items are feed URLs, blank      *)
(* strings or values that are no strings.                                  *)
(***************************************************************************)
FeedItems == {[isStr |-> TRUE, text |-> <<"u">>],
              [isStr |-> TRUE, text |-> <<" ">>],
              [isStr |-> FALSE, text |-> <<>>]}

FeedLists == SeqsUpTo(FeedItems, MaxFeeds)

IsFeedUrl(item) == item.isStr /\ strip(item.text) # <<>>

(***************************************************************************)
(* Feed entries, lines 239-245 and 202, 219-221.  An entry without         *)
(* published_parsed has has_published = FALSE, one without updated_parsed  *)
(* has has_updated = FALSE; yt_videoid may be missing.                     *)
(***************************************************************************)
Entries ==
    {[yt_videoid |-> "v1", has_published |-> TRUE, pub_ts |-> since_ts + 1,
      has_updated |-> TRUE, upd_ts |-> since_ts + 1,
      published |-> <<"d", "1">>, title |-> <<"a", "/", "b">>, author |-> <<"c", ":">>],
     [yt_videoid |-> "v2", has_published |-> TRUE, pub_ts |-> since_ts,
      has_updated |-> TRUE, upd_ts |-> since_ts + 1,
      published |-> <<"d", "0">>, title |-> <<"a", "b">>, author |-> <<"c">>],
     [yt_videoid |-> "v3", has_published |-> TRUE, pub_ts |-> since_ts - 1,
      has_updated |-> TRUE, upd_ts |-> since_ts + 1,
      published |-> <<"d", "0">>, title |-> <<"o">>, author |-> <<"c">>],
     [yt_videoid |-> "v4", has_published |-> FALSE, pub_ts |-> 0,
      has_updated |-> TRUE, upd_ts |-> since_ts + 1,
      published |-> <<>>, title |-> <<"n">>, author |-> <<"c">>],
     [yt_videoid |-> "v5", has_published |-> FALSE, pub_ts |-> 0,
      has_updated |-> FALSE, upd_ts |-> 0,
      published |-> <<>>, title |-> <<"m">>, author |-> <<"c">>],
     [yt_videoid |-> None, has_published |-> TRUE, pub_ts |-> since_ts + 1,
      has_updated |-> TRUE, upd_ts |-> since_ts + 1,
      published |-> <<"d", "1">>, title |-> <<"x">>, author |-> <<"c">>]}

EntryLists == SeqsUpTo(Entries, MaxEntries)

InWindow_strict(e) == e.has_published /\ ~(e.pub_ts <= since_ts)

\* lines 240-244: only published_parsed is read
InWindow(e) == e.has_published /\ ~(e.pub_ts < since_ts)

(***************************************************************************)
(* The gate of handle_entry, lines 207-209.                                *)
(***************************************************************************)
Skipped_shortsOnly(k) == k = "shorts"

Skipped(k) == k # "video"

(***************************************************************************)
(* gemini_audio, lines 106-158.                                            *)
(***************************************************************************)
AudioLens == {Threshold - 1, Threshold, Threshold + 1}

UseUpload_ge(n) == n >= Threshold

UseUpload(n) == n > Threshold

\* len(base64.b64encode(b)) for len(b) = n
b64len(n) == 4 * ((n + 2) \div 3)

PROMPT == "PROMPT"

InlineParts(n) ==
    <<[inline_data |-> [mime_type |-> "audio/mp3", data |-> b64len(n)]],
      [text |-> PROMPT]>>

FileParts(uri) == <<[file_data |-> [file_uri |-> uri]], [text |-> PROMPT]>>

\* requests' Response.raise_for_status(): HTTPError for 4xx and 5xx
raise_for_status(s) == 400 <= s /\ s < 600

Retryable(s) == s \in {429, 503}

InRange_more(r) == r < Attempts + 1

InRange(r) == r < Attempts

Statuses == {200, 304, 400, 429, 503}

\* JSON bodies of the upload endpoint
UploadBodies ==
    {[error |-> "e"],
     [file |-> [state |-> "s"]],
     [file |-> [uri |-> "u"]],
     [file |-> [name |-> "n"]],
     [file |-> [uri |-> "u", name |-> "n"]]}

\* j.get("file", {}).get("uri") or j.get("file", {}).get("name")
FileUri(j) ==
    LET f == Get(j, "file", [x \in {} |-> 0])
    IN  IF Get(f, "uri", None) # None THEN f["uri"] ELSE Get(f, "name", None)

\* JSON bodies of the generation endpoint
Candidate(ts) == [content |-> [parts |-> [i \in DOMAIN ts |-> [text |-> ts[i]]]]]

Bodies ==
    {[error |-> "e"],
     [candidates |-> <<>>],
     [candidates |-> <<Candidate(<<>>)>>],
     [candidates |-> <<Candidate(<<"t1", "t2">>)>>],
     [candidates |-> <<Candidate(<<"t2">>), Candidate(<<"t1">>)>>]}

\* whether res.json()["candidates"][0]["content"]["parts"][0]["text"] exists
WellFormed(b) ==
    /\ "candidates" \in DOMAIN b
    /\ Len(b["candidates"]) >= 1
    /\ Len(b["candidates"][1].content.parts) >= 1

ExtractText_last(b) ==
    b["candidates"][Len(b["candidates"])].content.parts[1].text

ExtractText(b) == b["candidates"][1].content.parts[1].text

Jitter == {0, 3}

(***************************************************************************)
(* notify, lines 35-44: the pync call, when pync was imported, and on its  *)
(* failure (or without pync) osascript through subprocess.run, which       *)
(* raises FileNotFoundError when the executable does not exist and does    *)
(* not look at the exit status.                                            *)
(***************************************************************************)
NotifyRaises(pyncOk) == ~(usePync /\ pyncOk) /\ ~osascript

\* <<_USE_PYNC, osascript exists>>: pync drives terminal-notifier and loads on
\* macOS only, where osascript is part of the system; elsewhere neither exists.
Machines == {<<TRUE, TRUE>>, <<FALSE, TRUE>>, <<FALSE, FALSE>>}

(***************************************************************************)
(* The output file name, lines 219-221.                                    *)
(***************************************************************************)
Unsafe == {"\\", "/", "*", "?", ":", "\"", "<", ">", "|"}

Keep(c) == c \notin Unsafe

Take(s, n) == SubSeq(s, 1, IF Len(s) < n THEN Len(s) ELSE n)

title_safe_cutFirst(e) == SelectSeq(Take(e.title, 80), Keep)

\* line 219
title_safe(e) == Take(SelectSeq(e.title, Keep), 80)

channel_safe(e) == Take(SelectSeq(e.author, Keep), 40)

FileName(e) ==
    Take(e.published, 10) \o <<"_">> \o title_safe(e) \o <<"_">>
        \o channel_safe(e) \o <<".", "m", "d">>

(***************************************************************************)
(* State after the module is loaded and crawl has read feeds.yaml,         *)
(* lines 230-231.                                                          *)
(***************************************************************************)
NoCalls == [download |-> 0, upload |-> 0, gen |-> 0, warn |-> 0, sleep |-> 0,
            write |-> 0, saved |-> 0]

NoMeta == [x \in {} |-> 0]

Never == 0 - 1

Init ==
    /\ pc = "feeds"
    /\ feeds \in FeedLists
    /\ entries = <<>>
    /\ \E m \in Machines : usePync = m[1] /\ osascript = m[2]
    /\ meta = NoMeta
    /\ kind = None
    /\ tmp = FALSE
    /\ audioLen = 0
    /\ parts = <<>>
    /\ retry = 0
    /\ upStatus = 0
    /\ status = 0
    /\ body = NoMeta
    /\ md = None
    /\ wait = 0
    /\ calls = NoCalls
    /\ processed = {}
    /\ out = NoMeta
    /\ pause = Never
    /\ err = None

Cur == Head(entries)

config == <<usePync, osascript>>
loop == <<feeds, entries>>
gemini == <<audioLen, parts, retry, upStatus, status, body, md, wait>>

Raise_leak(e) ==
    /\ pc' = "crashed"
    /\ err' = e
    /\ UNCHANGED tmp

\* An exception no frame catches: the with block of handle_entry removes the
\* temporary directory, crawl is left, the process ends.
Raise(e) ==
    /\ pc' = "crashed"
    /\ err' = e
    /\ tmp' = FALSE

(***************************************************************************)
(* crawl, lines 229-246.                                                   *)
(***************************************************************************)
SkipFeedItem ==
    /\ pc = "feeds"
    /\ feeds # <<>>
    /\ ~IsFeedUrl(Head(feeds))
    /\ feeds' = Tail(feeds)
    /\ UNCHANGED <<meta, pc, entries, config, kind, tmp, gemini, calls,
                   processed, out, pause, err>>

ParseFeed ==
    /\ pc = "feeds"
    /\ feeds # <<>>
    /\ IsFeedUrl(Head(feeds))
    /\ \E d \in EntryLists :
        /\ entries' = d
        /\ pc' = IF d = <<>> THEN "feeds" ELSE "entries"
    /\ feeds' = Tail(feeds)
    /\ UNCHANGED <<pause, meta, config, kind, tmp, gemini, calls, processed, out, err>>

ParseFeedRaises ==
    /\ pc = "feeds"
    /\ feeds # <<>>
    /\ IsFeedUrl(Head(feeds))
    /\ Raise("feedparser")
    /\ UNCHANGED <<pause, meta, loop, config, kind, gemini, calls, processed, out>>

CrawlReturns ==
    /\ pc = "feeds"
    /\ feeds = <<>>
    /\ pc' = "done"
    /\ UNCHANGED <<pause, meta, loop, config, kind, tmp, gemini, calls, processed, out, err>>

EndOfEntries ==
    /\ pc = "entries"
    /\ entries = <<>>
    /\ pc' = "feeds"
    /\ UNCHANGED <<pause, meta, loop, config, kind, tmp, gemini, calls, processed, out, err>>

SkipEntry ==
    /\ pc = "entries"
    /\ entries # <<>>
    /\ ~InWindow(Cur)
    /\ entries' = Tail(entries)
    /\ UNCHANGED <<meta, pc, feeds, config, kind, tmp, gemini, calls,
                   processed, out, pause, err>>

\* line 245: the call of handle_entry
HandEntry ==
    /\ pc = "entries"
    /\ entries # <<>>
    /\ InWindow(Cur)
    /\ pc' = "handle_entry"
    /\ UNCHANGED <<pause, meta, loop, config, kind, tmp, gemini, calls, processed, out, err>>

PacingSleep_skipped ==
    /\ pc = "pacing"
    /\ entries' = Tail(entries)
    /\ pc' = "entries"
    /\ meta' = NoMeta
    /\ kind' = None
    /\ audioLen' = 0
    /\ parts' = <<>>
    /\ retry' = 0
    /\ upStatus' = 0
    /\ status' = 0
    /\ body' = NoMeta
    /\ md' = None
    /\ wait' = 0
    /\ calls' = NoCalls
    /\ pause' = pause
    /\ UNCHANGED <<feeds, config, tmp, processed, out, err>>

\* line 246, after handle_entry has returned and its frame is gone
PacingSleep ==
    /\ pc = "pacing"
    /\ entries' = Tail(entries)
    /\ pc' = "entries"
    /\ meta' = NoMeta
    /\ kind' = None
    /\ audioLen' = 0
    /\ parts' = <<>>
    /\ retry' = 0
    /\ upStatus' = 0
    /\ status' = 0
    /\ body' = NoMeta
    /\ md' = None
    /\ wait' = 0
    /\ calls' = NoCalls
    /\ pause' = pause + PacingSeconds
    /\ UNCHANGED <<feeds, config, tmp, processed, out, err>>

(***************************************************************************)
(* handle_entry, lines 201-225.                                            *)
(***************************************************************************)
NoVideoId ==
    /\ pc = "handle_entry"
    /\ Cur.yt_videoid = None
    /\ pc' = "pacing"
    /\ pause' = 0
    /\ UNCHANGED <<meta, loop, config, kind, tmp, gemini, calls, processed, out, err>>

\* lines 206-209: the metadata probe succeeds and prints m
ClassifyVideo ==
    /\ pc = "handle_entry"
    /\ Cur.yt_videoid # None
    /\ \E m \in ProbeMetas :
        /\ meta' = m
        /\ kind' = classify_video(m)
        /\ pc' = IF Skipped(classify_video(m)) THEN "pacing" ELSE "download"
        /\ pause' = IF Skipped(classify_video(m)) THEN 0 ELSE pause
    /\ UNCHANGED <<loop, config, tmp, gemini, calls, processed, out, err>>

\* line 184-189: check=True, the probe exits non-zero
ProbeFails ==
    /\ pc = "handle_entry"
    /\ Cur.yt_videoid # None
    /\ Raise("CalledProcessError")
    /\ UNCHANGED <<pause, meta, loop, config, kind, gemini, calls, processed, out>>

\* lines 212-217: the temporary directory, the download, read_bytes
Download ==
    /\ pc = "download"
    /\ tmp' = TRUE
    /\ calls' = [calls EXCEPT !.download = @ + 1]
    /\ \E n \in AudioLens : audioLen' = n
    /\ pc' = "gemini_audio"
    /\ UNCHANGED <<pause, meta, loop, config, kind, parts, retry, upStatus, status, body,
                   md, wait, processed, out, err>>

DownloadFails_partial ==
    /\ pc = "download"
    /\ calls' = [calls EXCEPT !.download = @ + 1]
    /\ Raise("CalledProcessError")
    /\ out' = [n \in DOMAIN out \cup {FileName(Cur)} |->
                  IF n = FileName(Cur) THEN None ELSE out[n]]
    /\ UNCHANGED <<pause, meta, loop, config, kind, gemini, processed>>

DownloadFails ==
    /\ pc = "download"
    /\ calls' = [calls EXCEPT !.download = @ + 1]
    /\ Raise("CalledProcessError")
    /\ UNCHANGED <<pause, meta, loop, config, kind, gemini, processed, out>>

(***************************************************************************)
(* gemini_audio, lines 106-158.                                            *)
(***************************************************************************)
\* lines 131-143
InlinePayload ==
    /\ pc = "gemini_audio"
    /\ ~UseUpload(audioLen)
    /\ parts' = InlineParts(audioLen)
    /\ pc' = "generate"
    /\ UNCHANGED <<pause, meta, loop, config, kind, tmp, audioLen, retry, upStatus, status,
                   body, md, wait, calls, processed, out, err>>

\* lines 110-130 and 143
Upload ==
    /\ pc = "gemini_audio"
    /\ UseUpload(audioLen)
    /\ calls' = [calls EXCEPT !.upload = @ + 1]
    /\ \E s \in Statuses, j \in UploadBodies :
        /\ upStatus' = s
        /\ IF raise_for_status(s)
           THEN Raise("HTTPError") /\ UNCHANGED parts
           ELSE IF FileUri(j) = None
           THEN Raise("RuntimeError_upload") /\ UNCHANGED parts
           ELSE /\ parts' = FileParts(FileUri(j))
                /\ pc' = "generate"
                /\ UNCHANGED <<tmp, err>>
    /\ UNCHANGED <<pause, meta, loop, config, kind, audioLen, retry, status, body, md, wait,
                   processed, out>>

\* lines 146-147: one more pass of the loop, the request and its response
Generate ==
    /\ pc = "generate"
    /\ InRange(retry)
    /\ calls' = [calls EXCEPT !.gen = @ + 1]
    /\ \E s \in Statuses : status' = s
    /\ pc' = "response"
    /\ UNCHANGED <<pause, meta, loop, config, kind, tmp, audioLen, parts, retry, upStatus,
                   body, md, wait, processed, out, err>>

\* line 158: range(5) is used up
RetriesExhausted ==
    /\ pc = "generate"
    /\ ~InRange(retry)
    /\ Raise("RuntimeError_retries")
    /\ UNCHANGED <<pause, meta, loop, config, kind, gemini, calls, processed, out>>

\* lines 148-150: the delay is computed and the warning is sent
BackoffNotify ==
    /\ pc = "response"
    /\ Retryable(status)
    /\ \E r \in Jitter : wait' = 2 ^ retry + r
    /\ \E pyncOk \in BOOLEAN :
        IF NotifyRaises(pyncOk)
        THEN Raise("FileNotFoundError") /\ UNCHANGED calls
        ELSE /\ calls' = [calls EXCEPT !.warn = @ + 1]
             /\ pc' = "backoff"
             /\ UNCHANGED <<tmp, err>>
    /\ UNCHANGED <<pause, meta, loop, config, kind, audioLen, parts, retry, upStatus, status,
                   body, md, processed, out>>

BackoffSleep_rebuild ==
    /\ pc = "backoff"
    /\ calls' = [calls EXCEPT !.sleep = @ + 1]
    /\ retry' = retry + 1
    /\ wait' = 0
    /\ pc' = "gemini_audio"
    /\ UNCHANGED <<pause, meta, loop, config, kind, tmp, audioLen, parts, upStatus, status,
                   body, md, processed, out, err>>

\* lines 151-152
BackoffSleep ==
    /\ pc = "backoff"
    /\ calls' = [calls EXCEPT !.sleep = @ + 1]
    /\ retry' = retry + 1
    /\ wait' = 0
    /\ pc' = "generate"
    /\ UNCHANGED <<pause, meta, loop, config, kind, tmp, audioLen, parts, upStatus, status,
                   body, md, processed, out, err>>

\* line 153
GenerateFails ==
    /\ pc = "response"
    /\ ~Retryable(status)
    /\ raise_for_status(status)
    /\ Raise("HTTPError")
    /\ UNCHANGED <<pause, meta, loop, config, kind, gemini, calls, processed, out>>

\* lines 153-156 and the end of the with block of line 212
GenerateReturns ==
    /\ pc = "response"
    /\ ~Retryable(status)
    /\ ~raise_for_status(status)
    /\ \E b \in Bodies :
        /\ body' = b
        /\ IF WellFormed(b)
           THEN /\ md' = ExtractText(b)
                /\ pc' = "write"
                /\ tmp' = FALSE
                /\ UNCHANGED err
           ELSE Raise("KeyError") /\ UNCHANGED md
    /\ UNCHANGED <<pause, meta, loop, config, kind, audioLen, parts, retry, upStatus, status,
                   wait, calls, processed, out>>

\* lines 219-224
WriteOutput ==
    /\ pc = "write"
    /\ out' = [n \in DOMAIN out \cup {FileName(Cur)} |->
                  IF n = FileName(Cur) THEN md ELSE out[n]]
    /\ calls' = [calls EXCEPT !.write = @ + 1]
    /\ processed' = processed \cup {Cur.yt_videoid}
    /\ pc' = "saved"
    /\ UNCHANGED <<pause, meta, loop, config, kind, tmp, gemini, err>>

\* line 225
NotifySaved ==
    /\ pc = "saved"
    /\ \E pyncOk \in BOOLEAN :
        IF NotifyRaises(pyncOk)
        THEN Raise("FileNotFoundError") /\ UNCHANGED <<calls, pause>>
        ELSE /\ calls' = [calls EXCEPT !.saved = @ + 1]
             /\ pc' = "pacing"
             /\ pause' = 0
             /\ UNCHANGED <<tmp, err>>
    /\ UNCHANGED <<meta, loop, config, kind, gemini, processed, out>>

Next ==
    \/ SkipFeedItem
    \/ ParseFeed
    \/ ParseFeedRaises
    \/ CrawlReturns
    \/ EndOfEntries
    \/ SkipEntry
    \/ HandEntry
    \/ PacingSleep
    \/ NoVideoId
    \/ ClassifyVideo
    \/ ProbeFails
    \/ Download
    \/ DownloadFails
    \/ InlinePayload
    \/ Upload
    \/ Generate
    \/ RetriesExhausted
    \/ BackoffNotify
    \/ BackoffSleep
    \/ GenerateFails
    \/ GenerateReturns
    \/ WriteOutput
    \/ NotifySaved

Spec == Init /\ [][Next]_vars

(***************************************************************************)
(* classify_video on its own: every metadata record of MetaRecords is      *)
(* classified once.                                                        *)
(***************************************************************************)
InitClassify ==
    /\ pc = "classify"
    /\ meta \in MetaRecords
    /\ feeds = <<>>
    /\ entries = <<>>
    /\ usePync = FALSE
    /\ osascript = TRUE
    /\ kind = None
    /\ tmp = FALSE
    /\ audioLen = 0
    /\ parts = <<>>
    /\ retry = 0
    /\ upStatus = 0
    /\ status = 0
    /\ body = NoMeta
    /\ md = None
    /\ wait = 0
    /\ calls = NoCalls
    /\ processed = {}
    /\ out = NoMeta
    /\ pause = Never
    /\ err = None

ClassifyRecord ==
    /\ pc = "classify"
    /\ kind' = classify_video(meta)
    /\ pc' = "classified"
    /\ UNCHANGED <<pause, meta, loop, config, tmp, gemini, calls, processed, out, err>>

NextClassify == ClassifyRecord

SpecClassify == InitClassify /\ [][NextClassify]_vars

(***************************************************************************)
(* Lines 219-223 on their own: handle_entry at line 219, with the text of  *)
(* gemini_audio in hand, for entries whose title and author run up to and  *)
(* past the two cuts and carry each character of the class of line 219.    *)
(***************************************************************************)
RECURSIVE Rep(_, _)
Rep(c, n) == IF n = 0 THEN <<>> ELSE <<c>> \o Rep(c, n - 1)

Heads == {<<>>, <<"a", "*", "c">>} \cup {<<u>> : u \in Unsafe}

PadLens == {0, 38, 39, 40, 41, 77, 78, 79, 80, 81}

Tails == {<<>>, <<"z">>, <<"?", "y", "z">>}

Titles == {h \o Rep("b", n) \o t : h \in Heads, n \in PadLens, t \in Tails}

Authors ==
    {<<"c">>, <<"c", ":">>, Rep("k", 40), <<"/">> \o Rep("k", 39) \o <<"|", "q", "r">>,
     Rep("k", 41)}

SanitizeEntries ==
    {[yt_videoid |-> "v1", has_published |-> TRUE, pub_ts |-> since_ts + 1,
      has_updated |-> TRUE, upd_ts |-> since_ts + 1,
      published |-> <<"2", "0", "2", "5", "-", "0", "1", "-", "0", "2", "T", "0">>,
      title |-> t, author |-> a] : t \in Titles, a \in Authors}

InitSanitize ==
    /\ pc = "write"
    /\ feeds = <<>>
    /\ entries \in {<<e>> : e \in SanitizeEntries}
    /\ usePync = FALSE
    /\ osascript = TRUE
    /\ meta \in {m \in ProbeMetas : classify_video(m) = "video"}
    /\ kind = "video"
    /\ tmp = FALSE
    /\ audioLen = Threshold - 1
    /\ parts = InlineParts(audioLen)
    /\ retry = 0
    /\ upStatus = 0
    /\ status = 200
    /\ body \in {b \in Bodies : WellFormed(b)}
    /\ md = ExtractText(body)
    /\ wait = 0
    /\ calls = [NoCalls EXCEPT !.download = 1, !.gen = 1]
    /\ processed = {}
    /\ out = NoMeta
    /\ pause = Never
    /\ err = None

NextSanitize == WriteOutput

SpecSanitize == InitSanitize /\ [][NextSanitize]_vars

(***************************************************************************)
(* Properties.                                                             *)
(***************************************************************************)
\* exceptions raised inside handle_entry
EntryErrors == {"CalledProcessError", "HTTPError", "RuntimeError_upload",
                "RuntimeError_retries", "KeyError", "FileNotFoundError"}

\* an in-window entry of the current feed after the current one
PendingEntry == \E i \in 2..Len(entries) : InWindow(entries[i])

\* a feed source the outer loop has not parsed yet
PendingFeed == \E i \in DOMAIN feeds : IsFeedUrl(feeds[i])

HasPart(ps, key) == \E i \in DOMAIN ps : key \in DOMAIN ps[i]

\* the thread is inside gemini_audio, past the size check
InGeneration == pc \in {"generate", "response", "backoff"}

\* the thread is between the classification gate and the write of the file
InTranscription == pc \in {"download", "gemini_audio", "generate", "response",
                           "backoff", "write"}

\* C1: a failure of handle_entry does not end the crawl loop: when the run has
\* ended with an exception raised inside handle_entry, no later in-window
\* entry of the same feed and no later feed is left unprocessed.
C1_EntryFailureIsolated ==
    (pc = "crashed" /\ err \in EntryErrors) => (~PendingEntry /\ ~PendingFeed)

\* C2: a failure while parsing a feed or iterating its entries does not keep
\* the remaining feed sources from being parsed: the run never ends with a
\* feed source still unparsed.
C2_SourceFailureIsolated ==
    pc \in {"crashed", "done"} => ~PendingFeed

\* C3: the payload strategy is decided by len(audio) > 20 MiB alone: above
\* the threshold exactly one upload request was made and the request carries
\* a file reference and no inline data; at or below it no upload request was
\* made and the request carries inline data and no file reference.
C3_PayloadStrategy ==
    (InGeneration \/ calls.gen > 0) =>
        /\ audioLen > 20 * 1024 * 1024 =>
              /\ calls.upload = 1
              /\ HasPart(parts, "file_data")
              /\ ~HasPart(parts, "inline_data")
        /\ audioLen <= 20 * 1024 * 1024 =>
              /\ calls.upload = 0
              /\ HasPart(parts, "inline_data")
              /\ ~HasPart(parts, "file_data")

C3_Witness ==
    /\ audioLen = 20 * 1024 * 1024
    /\ calls.gen >= 1
    /\ HasPart(parts, "inline_data")

\* C4: one gemini_audio call makes at most 5 generation requests; once the
\* fifth request in a row is answered 429 or 503 there are exactly 5 requests,
\* the loop is left and the call ends with the retries-exhausted error and
\* with no other; that error is raised in no other case, and a non-retryable
\* HTTP failure of the generation request ends with a different error.
C4_RetryBound ==
    /\ calls.gen <= 5
    /\ (calls.gen = 5 /\ status \in {429, 503}) =>
          /\ pc \in {"response", "backoff", "generate", "crashed"}
          /\ pc = "generate" => retry = 5
          /\ pc = "crashed" => err = "RuntimeError_retries"
    /\ err = "RuntimeError_retries" =>
          /\ calls.gen = 5
          /\ calls.sleep = 5
          /\ status \in {429, 503}
    /\ (pc = "crashed" /\ calls.gen >= 1 /\ status \notin {429, 503}
            /\ status >= 400) =>
          err = "HTTPError"

C4_Witness ==
    /\ pc = "crashed"
    /\ err = "RuntimeError_retries"
    /\ calls.gen = 5

\* C5: when attempt k (0..4) is answered 200 with a well-formed body after k
\* answers of 429/503, gemini_audio returns the text of the first part of the
\* first candidate of that body, and exactly k+1 requests were made.
C5_SuccessAtAnyAttempt ==
    (status = 200 /\ WellFormed(body)) =>
        /\ md = Head(Head(body["candidates"]).content.parts).text
        /\ retry \in 0..4
        /\ calls.gen = retry + 1
        /\ calls.sleep = retry
        /\ pc \in {"write", "saved", "pacing", "crashed"}
        /\ pc = "crashed" => err = "FileNotFoundError" /\ calls.write = 1

C5_Witness ==
    /\ status = 200
    /\ retry = 4
    /\ calls.gen = 5
    /\ WellFormed(body)
    /\ Len(body["candidates"]) = 2
    /\ md = "t2"

\* C6: a generation response whose status is neither 2xx nor 429/503 makes
\* gemini_audio fail at once: no further request, no backoff sleep for it,
\* no text returned.
C6_NonRetryableFails ==
    (calls.gen >= 1 /\ pc # "response" /\ status \notin 200..299
        /\ status \notin {429, 503}) =>
        /\ pc = "crashed"
        /\ md = None
        /\ calls.gen = retry + 1
        /\ calls.sleep = retry

\* C6, for the statuses raise_for_status rejects: a 4xx or 5xx status other
\* than 429/503 ends the call with HTTPError, no text, no further request and
\* no backoff sleep or warning for that response.
C6_ErrorStatusFails ==
    (calls.gen >= 1 /\ pc # "response" /\ status \in 400..599
        /\ status \notin {429, 503}) =>
        /\ pc = "crashed"
        /\ err = "HTTPError"
        /\ md = None
        /\ calls.gen = retry + 1
        /\ calls.sleep = retry
        /\ calls.warn = retry

\* C7: a non-2xx answer of the upload endpoint makes gemini_audio fail with
\* exactly one upload request and no generation request.
C7_UploadFailureTerminal ==
    (calls.upload >= 1 /\ upStatus \notin 200..299) =>
        /\ pc = "crashed"
        /\ calls.upload = 1
        /\ calls.gen = 0

\* C7, for the statuses raise_for_status rejects: a 4xx or 5xx answer of the
\* upload endpoint (429 and 503 included) ends the call with HTTPError after
\* one upload request and no generation request.
C7_UploadErrorStatusFails ==
    (calls.upload >= 1 /\ upStatus \in 400..599) =>
        /\ pc = "crashed"
        /\ err = "HTTPError"
        /\ calls.upload = 1
        /\ calls.gen = 0

\* C8: the classification is short-form when duration <= 60 or when width and
\* height are both nonzero and height > width, whatever the live fields say;
\* otherwise live/stream when is_live, was_live or a live_status of is_live,
\* was_live or is_upcoming is set; otherwise eligible video.
C8_Classification ==
    pc = "classified" =>
        LET dur  == IF "duration" \in DOMAIN meta THEN meta["duration"] ELSE 0
            w    == IF "width" \in DOMAIN meta THEN meta["width"] ELSE 0
            h    == IF "height" \in DOMAIN meta THEN meta["height"] ELSE 0
            flag(k) == k \in DOMAIN meta /\ meta[k]
            short == dur <= 60 \/ (w > 0 /\ h > 0 /\ h > w)
            live == \/ flag("is_live")
                    \/ flag("was_live")
                    \/ /\ "live_status" \in DOMAIN meta
                       /\ meta["live_status"] \in {"is_live", "was_live", "is_upcoming"}
        IN  /\ short => kind = "shorts"
            /\ (~short /\ live) => kind = "stream"
            /\ (~short /\ ~live) => kind = "video"

C8_Witness ==
    /\ pc = "classified"
    /\ kind = "shorts"
    /\ meta = [duration |-> 600, width |-> 1080, height |-> 1920,
               is_live |-> TRUE, was_live |-> FALSE, live_status |-> "is_live"]

\* C9: an entry classified short-form or live/stream is skipped without an
\* error and without download, upload, generation request, written file or
\* notification; the download and the transcription are reached only for an
\* entry classified eligible video.
C9_ClassificationGate ==
    /\ kind \in {"shorts", "stream"} =>
          /\ pc = "pacing"
          /\ err = None
          /\ calls = NoCalls
          /\ md = None
          /\ ~tmp
    /\ (InTranscription \/ pc = "saved" \/ calls # NoCalls) => kind = "video"

C9_Witness ==
    /\ kind = "stream"
    /\ pc = "pacing"
    /\ calls = NoCalls

\* C10: an entry whose video id was already processed successfully is skipped
\* as a duplicate: the thread never enters the download or the transcription
\* for it.
C10_DuplicateSkipped ==
    InTranscription => Cur.yt_videoid \notin processed

\* C11: the output file of an entry is written only after gemini_audio has
\* returned its text, once per handled entry, and the write leaves that text
\* as the whole content of that one file; every other step of the program,
\* each failure of classification, download or transcription included,
\* leaves every output file as it was.
C11_NoPartialOutput ==
    [][/\ calls'.write > calls.write =>
            /\ pc = "write"
            /\ md # None
            /\ calls.gen >= 1
            /\ calls.write = 0
            /\ calls'.write = 1
            /\ DOMAIN out' = DOMAIN out \cup {FileName(Cur)}
            /\ out'[FileName(Cur)] = md
            /\ \A n \in DOMAIN out \ {FileName(Cur)} : out'[n] = out[n]
       /\ ~(calls'.write > calls.write) => out' = out
       /\ pc' = "crashed" => out' = out]_vars

C11_Witness ==
    /\ pc = "saved"
    /\ calls.write = 1
    /\ FileName(Cur) \in DOMAIN out
    /\ out[FileName(Cur)] = md
    /\ md = "t2"

\* C12: the temporary directory of handle_entry exists only while the thread
\* is inside the with block of line 212: it is gone after the normal return,
\* after a failed download and after any failure of gemini_audio, and the
\* next directory is created only when none exists.
C12_ScopedTemp ==
    /\ tmp => pc \in {"gemini_audio", "generate", "response", "backoff"}
    /\ pc \in {"download", "write", "saved", "pacing", "crashed", "done"} => ~tmp

C12_Witness ==
    /\ pc = "crashed"
    /\ err = "RuntimeError_retries"
    /\ calls.download = 1
    /\ ~tmp

\* C13: a notification that cannot be delivered never propagates: the run
\* never ends with the exception of the notifier, neither after the output
\* file was written (line 225) nor inside the retry loop (line 150).
C13_NotifyNeverPropagates ==
    ~(pc = "crashed" /\ err = "FileNotFoundError")

C15_UpdatedFallback ==
    [][/\ pc = "entries"
       /\ entries # <<>>
       /\ ~Cur.has_published
       /\ Cur.has_updated
       /\ Cur.upd_ts >= since_ts
       => pc' = "handle_entry"]_vars

\* C16: crawl runs handle_entry for one entry at a time, in the order of the
\* sources and of the entries of each source: a call starts only from the
\* loop of crawl, for the entry at the head of what is left, never while
\* another call is still running, and, except for the first call of the run,
\* only after the pacing sleep of 3 seconds that follows the previous call.
C16_SequentialPaced ==
    [][/\ pc' = "handle_entry" /\ pc # "handle_entry" =>
             /\ pc = "entries"
             /\ entries' = entries
             /\ calls = NoCalls
             /\ ~tmp
             /\ pause \in {Never, 3}
       /\ pc \notin {"feeds", "entries", "pacing"} =>
             /\ entries' = entries
             /\ feeds' = feeds
       /\ pc = "pacing" =>
             /\ pc' = "entries"
             /\ entries' = Tail(entries)
             /\ pause' = pause + 3
       /\ pc = "entries" =>
             \/ entries' = entries
             \/ entries # <<>> /\ entries' = Tail(entries)
       /\ \/ feeds' = feeds
          \/ pc = "feeds" /\ feeds # <<>> /\ feeds' = Tail(feeds)]_vars

C16_Witness ==
    /\ pc = "handle_entry"
    /\ pause = 3
    /\ Cur.yt_videoid = "v2"

(***************************************************************************)
(* The characters of s outside the class of line 219, in their order,      *)
(* taken from the front one at a time.                                     *)
(***************************************************************************)
RECURSIVE Stripped(_)
Stripped(s) ==
    IF s = <<>> THEN <<>>
    ELSE IF Head(s) \in {"\\", "/", "*", "?", ":", "\"", "<", ">", "|"}
         THEN Stripped(Tail(s))
         ELSE <<Head(s)>> \o Stripped(Tail(s))

SafeCount(s) ==
    Cardinality({i \in 1..Len(s) :
                    s[i] \notin {"\\", "/", "*", "?", ":", "\"", "<", ">", "|"}})

Clean(s) ==
    \A i \in 1..Len(s) : s[i] \notin {"\\", "/", "*", "?", ":", "\"", "<", ">", "|"}

Smaller(a, b) == IF a < b THEN a ELSE b

\* C17: the file written for an entry is named by the first 10 characters of
\* the publish date, "_", the title with every character of \ / * ? : " < > |
\* removed and then cut to at most 80 characters, "_", the author treated the
\* same way and cut to at most 40 characters, and ".md"; neither component
\* holds one of those characters, and each is as long as the number of its
\* other characters allows, up to its cut.
C17_FilenameSanitized ==
    pc = "saved" =>
        LET t == Stripped(Cur.title)
            c == Stripped(Cur.author)
            T == SubSeq(t, 1, Smaller(80, Len(t)))
            C == SubSeq(c, 1, Smaller(40, Len(c)))
            date == SubSeq(Cur.published, 1, Smaller(10, Len(Cur.published)))
        IN  /\ title_safe(Cur) = T
            /\ channel_safe(Cur) = C
            /\ Len(T) = Smaller(80, SafeCount(Cur.title))
            /\ Len(C) = Smaller(40, SafeCount(Cur.author))
            /\ Clean(T)
            /\ Clean(C)
            /\ DOMAIN out = {date \o <<"_">> \o T \o <<"_">> \o C \o <<".", "m", "d">>}

C17_Witness ==
    /\ pc = "saved"
    /\ Len(Cur.title) > 80
    /\ SafeCount(Cur.title) < Len(Cur.title)
    /\ SafeCount(Cur.title) > 80
    /\ Len(title_safe(Cur)) = 80
    /\ SafeCount(Cur.author) > 40
    /\ SafeCount(Cur.author) < Len(Cur.author)
    /\ Len(channel_safe(Cur)) = 40
    /\ DOMAIN out = {FileName(Cur)}

\* C18: when the generation attempt of index i is answered with 429 or 503,
\* the warning is sent first, then a sleep of 2^i + r seconds with
\* 0 <= r <= 3 is taken, and the next attempt is made only after that sleep.
C18_BackoffSchedule ==
    [][/\ pc = "response" /\ status \in {429, 503} =>
             /\ pc' = "backoff"
             /\ calls'.warn = calls.warn + 1
             /\ calls'.sleep = calls.sleep
             /\ calls'.gen = calls.gen
             /\ wait' >= 2 ^ retry
             /\ wait' <= 2 ^ retry + 3
             /\ retry \in 0..4
       /\ pc = "backoff" =>
             /\ calls'.sleep = calls.sleep + 1
             /\ calls'.gen = calls.gen
             /\ retry' = retry + 1
       /\ calls'.gen > calls.gen /\ calls.gen > 0 =>
             /\ pc = "generate"
             /\ calls.sleep = calls.gen
             /\ calls.warn = calls.gen]_vars

\* The schedule of C18 on a machine where notify can deliver: no step of the
\* retry loop ends with the exception of the notifier there.
C18_ScheduleWhereNotifyWorks ==
    [][(usePync \/ osascript) /\ pc = "response" /\ status \in {429, 503} =>
             /\ pc' = "backoff"
             /\ calls'.warn = calls.warn + 1
             /\ calls'.sleep = calls.sleep
             /\ wait' >= 2 ^ retry
             /\ wait' <= 2 ^ retry + 3]_vars

\* The 429 and 503 responses received so far in the running gemini_audio
\* call: every response but the last was one, since any other response ends
\* the loop.
Throttled ==
    IF calls.gen = 0 THEN 0
    ELSE IF status \in {429, 503} THEN calls.gen ELSE calls.gen - 1

\* C19: once a response has been dealt with, the backoff sleeps and the
\* warnings of the gemini_audio call are as many as its 429 and 503
\* responses, the response to the attempt of index 4 included; "retries
\* exhausted" is raised only after five attempts and five sleeps.
C19_SleepPerThrottle ==
    /\ pc \notin {"response", "backoff"} =>
          /\ calls.sleep = Throttled
          /\ calls.warn = Throttled
    /\ pc = "backoff" => calls.warn = Throttled /\ calls.sleep = Throttled - 1
    /\ pc = "backoff" /\ retry = 4 => wait >= 16
    /\ err = "RuntimeError_retries" =>
          /\ calls.gen = 5
          /\ calls.sleep = 5
          /\ calls.warn = 5

\* The count of C19 in every state but the one the failure of notify leaves.
C19_SleepPerThrottleDelivered ==
    err # "FileNotFoundError" /\ pc \notin {"response", "backoff"} =>
        /\ calls.sleep = Throttled
        /\ calls.warn = Throttled
        /\ err = "RuntimeError_retries" => calls.gen = 5 /\ calls.sleep = 5

\* C20: in one gemini_audio call the upload endpoint is called at most once,
\* and only before the first generation request; the parts of the payload are
\* built once, before the first request, and every generation attempt of the
\* call sends those same parts, so a retry after 429 or 503 neither uploads
\* again nor changes between inline data and file reference.
C20_PayloadBuiltOnce ==
    [][/\ calls'.upload > calls.upload =>
             /\ calls.upload = 0
             /\ calls'.upload = 1
             /\ calls.gen = 0
       /\ calls.gen > 0 /\ pc # "pacing" => parts' = parts
       /\ calls'.gen > calls.gen =>
             /\ parts' = parts
             /\ parts # <<>>
             /\ HasPart(parts, "file_data") <=> calls.upload = 1
             /\ HasPart(parts, "inline_data") <=> calls.upload = 0
       /\ pc \in {"generate", "response", "backoff"} /\ pc' \notin {"crashed", "write"} =>
             pc' \in {"generate", "response", "backoff"}]_vars

C20_Witness ==
    /\ calls.upload = 1
    /\ calls.gen = 5
    /\ calls.sleep = 4
    /\ pc = "response"
    /\ HasPart(parts, "file_data")

====
